---- MODULE Spec2Model ----
(***************************************************************************)
(* Model of session_checker.py: the manual-login bootstrap, the            *)
(* revalidation loop with its growing sleep, cookie injection, the URL     *)
(* heuristic that decides whether the session is still valid, and the      *)
(* top-level exception handling and browser cleanup of main().             *)
(*                                                                         *)
(* Strings are sequences of one-character strings, so that rstrip, the     *)
(* substring test and lower() are computed character by character.         *)
(***************************************************************************)
EXTENDS Integers, Sequences, FiniteSets, TLC

\* ------------------------------------------------------------------ bounds
\* Largest value of loop_count the model explores.
MaxLoops == 2
\* Longest cookie list (in the cookie file or returned by the browser).
MaxCookies == 2
\* Number of fragments a target URL / an observed URL is built from.
MaxTargetParts == 2
MaxCurrentParts == 2

\* ----------------------------------------------------------------- strings
\* str.rstrip('/'): drop every trailing '/'.
RECURSIVE RStripSlash(_)
RStripSlash(s) ==
    IF s # <<>> /\ s[Len(s)] = "/"
      THEN RStripSlash(SubSeq(s, 1, Len(s) - 1))
      ELSE s

\* Python's `sub in s` on strings.
Contains(s, sub) ==
    \E i \in 0..(Len(s) - Len(sub)) : SubSeq(s, i + 1, i + Len(sub)) = sub

UpperToLower ==
    ("A" :> "a") @@ ("B" :> "b") @@ ("C" :> "c") @@ ("D" :> "d") @@
    ("E" :> "e") @@ ("F" :> "f") @@ ("G" :> "g") @@ ("H" :> "h") @@
    ("I" :> "i") @@ ("J" :> "j") @@ ("K" :> "k") @@ ("L" :> "l") @@
    ("M" :> "m") @@ ("N" :> "n") @@ ("O" :> "o") @@ ("P" :> "p") @@
    ("Q" :> "q") @@ ("R" :> "r") @@ ("S" :> "s") @@ ("T" :> "t") @@
    ("U" :> "u") @@ ("V" :> "v") @@ ("W" :> "w") @@ ("X" :> "x") @@
    ("Y" :> "y") @@ ("Z" :> "z")

\* str.lower().
Lower(s) ==
    [i \in 1..Len(s) |-> IF s[i] \in DOMAIN UpperToLower
                           THEN UpperToLower[s[i]] ELSE s[i]]

\* The keyword list of the login-page test.
LoginKeywords ==
    { <<"l","o","g","i","n">>,
      <<"s","i","g","n","i","n">>,
      <<"a","u","t","h","e","n","t","i","c","a","t","e">>,
      <<"c","o","n","s","e","n","t">>,
      <<"a","u","t","h","/","r","e","a","l","m","s">> }

\* Mutants of the classification (used to show the claims depend on it).
IsSessionValidCaseSensitive(target, current) ==
    IF RStripSlash(target) = RStripSlash(current) THEN TRUE
    ELSE IF Contains(current, target) THEN TRUE
    ELSE IF ~ \E k \in LoginKeywords : Contains(current, k) THEN TRUE
    ELSE FALSE

\* The if/elif chain that sets is_session_valid.
IsSessionValid(target, current) ==
    IF RStripSlash(target) = RStripSlash(current) THEN TRUE
    ELSE IF Contains(current, target) THEN TRUE
    ELSE IF ~ \E k \in LoginKeywords : Contains(Lower(current), k) THEN TRUE
    ELSE FALSE

\* ------------------------------------------------------------ input spaces
\* Pieces URLs are put together from.
UrlFragments ==
    { <<"/">>,
      <<"d">>,
      <<"l","o","g","i","n">>,
      <<"L","o","g","I","n">>,
      <<"s","i","g","n","i","n">>,
      <<"a","u","t","h","e","n","t","i","c","a","t","e">>,
      <<"c","o","n","s","e","n","t">>,
      <<"a","u","t","h","/","r","e","a","l","m","s">> }

RECURSIVE UrlsOfParts(_)
UrlsOfParts(n) ==
    IF n = 0 THEN { <<>> }
    ELSE LET shorter == UrlsOfParts(n - 1)
         IN  shorter \cup { u \o f : u \in shorter, f \in UrlFragments }

TargetUrls == UrlsOfParts(MaxTargetParts)
CurrentUrls == UrlsOfParts(MaxCurrentParts)

\* The URLs used while exploring the control flow of main().
MainTargetUrls == { <<"d","/">> }
MainCurrentUrls ==
    { <<"d">>,                                  \* equal modulo the slash
      <<"d","/","L","o","g","I","n">>,          \* contains the target
      <<"h","o","m","e">>,                      \* no keyword
      <<"S","i","g","n","I","n">> }             \* a login page

\* A cookie's expiry: absent, an int, or a float.  A float is kept as a
\* number of halves (val = 3 is 1.5), so that int() has something to drop.
NoExpiry == [kind |-> "none", val |-> 0]
IntExpiry(n) == [kind |-> "int", val |-> n]
FloatExpiry(halves) == [kind |-> "float", val |-> halves]

CookieUniverse ==
    { [name |-> "sid", expiry |-> NoExpiry],
      [name |-> "tok", expiry |-> IntExpiry(7)],
      [name |-> "exp", expiry |-> FloatExpiry(-3)] }

\* Cookie lists of at most MaxCookies cookies with distinct names, in the
\* order sid, tok, exp.
CookieOrder == <<"sid", "tok", "exp">>
RECURSIVE ListOfNames(_, _)
ListOfNames(names, i) ==
    IF i > Len(CookieOrder) THEN <<>>
    ELSE (IF CookieOrder[i] \in names
            THEN << CHOOSE c \in CookieUniverse : c.name = CookieOrder[i] >>
            ELSE <<>>) \o ListOfNames(names, i + 1)

CookieLists ==
    { ListOfNames(names, 1) :
        names \in { n \in SUBSET { c.name : c \in CookieUniverse } :
                      Cardinality(n) <= MaxCookies } }

\* Browser storage: localStorage and sessionStorage, each key -> string, the
\* keys and the values being sequences of characters like the URLs.  None
\* (getItem's null) is the one-element sequence below, which is no string.
EmptyStore == [k \in {} |-> <<>>]
NoneValue == << "None" >>
StorageChoices ==
    { [localStorage |-> (<<"j","w","t">> :> <<"v">>),
       sessionStorage |-> (<<"\\","q">> :> <<"v">>)],
      [localStorage |-> (<<"j","w","t">> :> <<>>) @@ (<<"u","i">> :> <<"v">>),
       sessionStorage |-> (<<"t","a","b">> :> <<"v">>)] }

\* The character a backslash escape stands for in a JavaScript string
\* literal (x, u and digits, which start longer escapes, are not used here).
JsEscape(c) == IF c = "n" THEN "\n" ELSE IF c = "t" THEN "\t" ELSE c

\* The JavaScript string literal '<body>' that an f-string builds around
\* `body`: a quote in the body ends the literal early and a backslash at its
\* end escapes the closing quote, both a SyntaxError for the script; any
\* other backslash is dropped and the character after it taken as escaped.
RECURSIVE JsString(_)
JsString(body) ==
    IF body = <<>> THEN [ok |-> TRUE, str |-> <<>>]
    ELSE IF Head(body) = "'" THEN [ok |-> FALSE, str |-> <<>>]
    ELSE IF Head(body) = "\\"
      THEN IF Len(body) = 1 THEN [ok |-> FALSE, str |-> <<>>]
           ELSE LET rest == JsString(SubSeq(body, 3, Len(body)))
                IN  [ok |-> rest.ok,
                     str |-> IF rest.ok THEN << JsEscape(body[2]) >> \o rest.str
                                        ELSE <<>>]
      ELSE LET rest == JsString(Tail(body))
           IN  [ok |-> rest.ok,
                str |-> IF rest.ok THEN << Head(body) >> \o rest.str ELSE <<>>]

\* The configured (INITIAL_WAIT_TIME, WAIT_TIME_INCREMENT) pairs explored;
\* the first is the default.
WaitConfigs == { <<55, 5>>, <<1, -1>> }

\* ------------------------------------------------------------------- state
VARIABLES
    INITIAL_URL, INITIAL_WAIT_TIME, WAIT_TIME_INCREMENT,    \* configuration
    pc,                      \* position in main()
    driver,                  \* 0 is None, else the index of a browser
    saved_cookies,           \* [none, list]
    is_first_login,
    loop_count, wait_time,
    cookie_idx, cookie_success_count, cookie_error_count,
    current_url_after_wait, is_session_valid, new_cookies,
    cookieFile,              \* COOKIES_FILE: [state, cookies]
    sessionFile,             \* SESSION_FILE: [state, data]
    browsers,                \* every browser launched: [open, quits]
    browserStorage,          \* storage of the page in the current browser
    outcome,                 \* why main() is ending
    sleeps,                  \* the loop's time.sleep(wait_time) calls so far
    handed,                  \* cookies passed to add_cookie this iteration
    iter_cookies,            \* saved_cookies as the injection loop found it
    save_failed,             \* the save_* calls that failed since the last quit
    cookie_file_written, session_file_written,  \* written during this run
    stale_warned,            \* the age check just logged its warning
    steps,                   \* the steps this iteration has performed, in order
    restore_attempts,        \* keys restore_local_storage called setItem for
    replaced_snapshot        \* SESSION_FILE as the last successful save found
                             \* it, kept while that browser is in use

config == <<INITIAL_URL, INITIAL_WAIT_TIME, WAIT_TIME_INCREMENT>>
counters == <<cookie_idx, cookie_success_count, cookie_error_count>>
verdict == <<current_url_after_wait, is_session_valid>>
files == <<cookieFile, sessionFile, cookie_file_written, session_file_written>>
injection == <<handed, iter_cookies>>
trace == <<stale_warned, steps, restore_attempts>>
vars == <<config, pc, driver, saved_cookies, is_first_login, loop_count,
          wait_time, counters, verdict, new_cookies, files, browsers,
          browserStorage, outcome, sleeps, injection, save_failed, trace,
          replaced_snapshot>>

NoneCookies == [none |-> TRUE, list |-> <<>>]
SomeCookies(l) == [none |-> FALSE, list |-> l]
\* Python truthiness of a cookie list or None.
\* A loaded list taken for usable whenever it is not None.
TruthyNotNone(c) == ~c.none

\* `if saved_cookies`: neither None nor the empty list.
Truthy(c) == ~c.none /\ c.list # <<>>

MissingFile == [state |-> "missing", cookies |-> <<>>]
UnreadableFile == [state |-> "unreadable", cookies |-> <<>>]
CookieFileOf(l) == [state |-> "ok", cookies |-> l]

MissingSnapshot ==
    [state |-> "missing",
     data |-> [localStorage |-> EmptyStore, sessionStorage |-> EmptyStore]]
UnreadableSnapshot ==
    [state |-> "unreadable",
     data |-> [localStorage |-> EmptyStore, sessionStorage |-> EmptyStore]]
\* value = driver.execute_script(f"return localStorage.getItem('{key}');")
GetItem(store, key) ==
    LET k == JsString(key).str
    IN  IF k \in DOMAIN store THEN store[k] ELSE NoneValue

\* storage_data: for key in key_list: storage_data[key] = value
StorageData(store) == [key \in DOMAIN store |-> GetItem(store, key)]

\* Every getItem script of a save is well-formed.
ScriptsParse(store) == \A key \in DOMAIN store : JsString(key).ok

\* combined_data, as pickled into SESSION_FILE
SnapshotOf(st) ==
    [state |-> "ok",
     data |-> [localStorage |-> StorageData(st.localStorage),
               sessionStorage |-> StorageData(st.sessionStorage)]]

\* os.path.exists
Exists(f) == f.state # "missing"

\* load_cookies_from_file
load_cookies_from_file ==
    IF ~Exists(cookieFile) THEN NoneCookies
    ELSE IF cookieFile.state = "ok" THEN SomeCookies(cookieFile.cookies)
    ELSE NoneCookies

NoAttempts == [localStorage |-> <<>>, sessionStorage |-> <<>>]
NewBrowser == [open |-> TRUE, quits |-> 0]
NoStorage == [localStorage |-> EmptyStore, sessionStorage |-> EmptyStore]

Init ==
    /\ INITIAL_URL \in MainTargetUrls
    /\ \E w \in WaitConfigs :
          INITIAL_WAIT_TIME = w[1] /\ WAIT_TIME_INCREMENT = w[2]
    /\ pc = "start"
    /\ driver = 0
    /\ saved_cookies = NoneCookies
    /\ is_first_login = FALSE
    /\ loop_count = 0
    /\ wait_time = 0
    /\ cookie_idx = 0 /\ cookie_success_count = 0 /\ cookie_error_count = 0
    /\ current_url_after_wait = <<>>
    /\ is_session_valid = FALSE
    /\ new_cookies = <<>>
    /\ cookieFile \in {MissingFile, UnreadableFile}
                        \cup { CookieFileOf(l) : l \in CookieLists }
    /\ sessionFile \in {MissingSnapshot, UnreadableSnapshot}
                        \cup { SnapshotOf(st) : st \in StorageChoices }
    /\ browsers = <<>>
    /\ browserStorage = NoStorage
    /\ outcome = "running"
    /\ sleeps = <<>>
    /\ handed = <<>>
    /\ iter_cookies = <<>>
    /\ save_failed = {}
    /\ cookie_file_written = FALSE
    /\ session_file_written = FALSE
    /\ stale_warned = FALSE
    /\ steps = <<>>
    /\ restore_attempts = NoAttempts
    /\ replaced_snapshot = MissingSnapshot

\* ----------------------------------------------------------------- helpers
\* An exception leaves the try block: `except Exception` logs it and the
\* finally clause runs.
Raise == pc' = "finally" /\ outcome' = "exception"

\* driver.quit() on browser b: it returns and the browser is gone, or it
\* raises and the browser is left as it was.
QuitReturns(b) ==
    browsers' = [browsers EXCEPT ![b] = [open |-> FALSE, quits |-> @.quits + 1]]
QuitRaises(b) ==
    browsers' = [browsers EXCEPT ![b] = [open |-> @.open, quits |-> @.quits + 1]]

\* setup_driver(): webdriver.Chrome() raises (no browser), or the browser is
\* launched and execute_script raises (the exception is re-raised and the
\* new browser is never returned), or the driver is returned.
SetupDriver(next) ==
    \/ /\ Raise
       /\ UNCHANGED <<browsers, driver, browserStorage>>
    \/ /\ browsers' = Append(browsers, NewBrowser)
       /\ Raise
       /\ UNCHANGED <<driver, browserStorage>>
    \/ /\ browsers' = Append(browsers, NewBrowser)
       /\ driver' = Len(browsers) + 1
       /\ browserStorage' = NoStorage
       /\ pc' = next
       /\ UNCHANGED outcome

\* save_local_storage(driver): the snapshot file is replaced by the browser's
\* two storages, or any exception is caught and False returned.
SaveLocalStorage ==
    \/ /\ ScriptsParse(browserStorage.localStorage)
       /\ ScriptsParse(browserStorage.sessionStorage)
       /\ sessionFile' = SnapshotOf(browserStorage)
       /\ session_file_written' = TRUE
       /\ replaced_snapshot' = sessionFile
       /\ UNCHANGED save_failed
    \/ /\ save_failed' = save_failed \cup {"storage"}
       /\ UNCHANGED <<sessionFile, session_file_written, replaced_snapshot>>

\* save_cookies_to_file(cookies)
SaveCookiesToFile(cookies) ==
    \/ /\ cookieFile' = CookieFileOf(cookies)
       /\ cookie_file_written' = TRUE
       /\ UNCHANGED save_failed
    \/ /\ save_failed' = save_failed \cup {"cookies"}
       /\ UNCHANGED <<cookieFile, cookie_file_written>>

\* ---------------------------------------------------------------- start-up
\* saved_cookies = load_cookies_from_file(); decide is_first_login.
Startup ==
    /\ pc = "start"
    /\ saved_cookies' = load_cookies_from_file
    /\ is_first_login' = ~(Truthy(saved_cookies') /\ Exists(sessionFile))
    /\ pc' = IF is_first_login' THEN "boot_setup" ELSE "loop_sleep"
    /\ UNCHANGED <<replaced_snapshot, trace,
                   config, driver, loop_count, wait_time, counters, verdict,
                   new_cookies, files, browsers, browserStorage, outcome,
                   sleeps, injection, save_failed>>

\* ---------------------------------------------------------------- bootstrap
BootSetupDriver ==
    /\ pc = "boot_setup"
    /\ SetupDriver("boot_login")
    /\ UNCHANGED <<replaced_snapshot, trace,
                   config, saved_cookies, is_first_login, loop_count,
                   wait_time, counters, verdict, new_cookies, files, sleeps,
                   injection, save_failed>>

\* driver.get(INITIAL_URL), the manual-login sleep and the reads of
\* driver.current_url; the page leaves some storage behind.
BootLogin ==
    /\ pc = "boot_login"
    /\ \/ /\ Raise
          /\ UNCHANGED browserStorage
       \/ /\ browserStorage' \in StorageChoices
          /\ pc' = "boot_storage"
          /\ UNCHANGED outcome
    /\ UNCHANGED <<replaced_snapshot, trace,
                   config, driver, saved_cookies, is_first_login, loop_count,
                   wait_time, counters, verdict, new_cookies, files, browsers,
                   sleeps, injection, save_failed>>

\* extract_auth_tokens(driver) (logs only) and save_local_storage(driver).
BootSaveStorage ==
    /\ pc = "boot_storage"
    /\ SaveLocalStorage
    /\ pc' = "boot_cookies"
    /\ UNCHANGED <<trace,
                   config, driver, saved_cookies, is_first_login, loop_count,
                   wait_time, counters, verdict, new_cookies, cookieFile,
                   cookie_file_written, browsers, browserStorage, outcome,
                   sleeps, injection>>

\* The bootstrap without the return of the empty-cookies branch.
BootGetCookiesNoReturn ==
    /\ pc = "boot_cookies"
    /\ \/ /\ Raise
          /\ UNCHANGED <<saved_cookies, cookieFile, cookie_file_written,
                         save_failed>>
       \/ \E cs \in CookieLists :
            /\ saved_cookies' = SomeCookies(cs)
            /\ pc' = "boot_quit"
            /\ IF cs # <<>>
                 THEN /\ SaveCookiesToFile(cs)
                      /\ UNCHANGED outcome
                 ELSE /\ outcome' = "no_cookies"
                      /\ UNCHANGED <<cookieFile, cookie_file_written,
                                     save_failed>>
    /\ UNCHANGED <<replaced_snapshot, trace,
                   config, driver, is_first_login, loop_count, wait_time,
                   counters, verdict, new_cookies, sessionFile,
                   session_file_written, browsers, browserStorage, sleeps,
                   injection>>

\* saved_cookies = driver.get_cookies(); save them, or return when empty.
BootGetCookies ==
    /\ pc = "boot_cookies"
    /\ \/ /\ Raise
          /\ UNCHANGED <<saved_cookies, cookieFile, cookie_file_written,
                         save_failed>>
       \/ \E cs \in CookieLists :
            /\ saved_cookies' = SomeCookies(cs)
            /\ IF cs # <<>>
                 THEN /\ SaveCookiesToFile(cs)
                      /\ pc' = "boot_quit"
                      /\ UNCHANGED outcome
                 ELSE /\ pc' = "finally"
                      /\ outcome' = "no_cookies"
                      /\ UNCHANGED <<cookieFile, cookie_file_written,
                                     save_failed>>
    /\ UNCHANGED <<replaced_snapshot, trace,
                   config, driver, is_first_login, loop_count, wait_time,
                   counters, verdict, new_cookies, sessionFile,
                   session_file_written, browsers, browserStorage, sleeps,
                   injection>>

\* driver.quit(); driver = None
BootQuit ==
    /\ pc = "boot_quit"
    /\ \/ /\ QuitRaises(driver)
          /\ Raise
          /\ UNCHANGED <<driver, save_failed, replaced_snapshot>>
       \/ /\ QuitReturns(driver)
          /\ driver' = 0
          /\ save_failed' = {}
          /\ replaced_snapshot' = MissingSnapshot
          /\ pc' = "loop_sleep"
          /\ UNCHANGED outcome
    /\ UNCHANGED <<trace,
                   config, saved_cookies, is_first_login, loop_count,
                   wait_time, counters, verdict, new_cookies, files,
                   browserStorage, sleeps, injection>>

\* --------------------------------------------------------- revalidation loop
WaitTimeFromCount(n) == (INITIAL_WAIT_TIME + n * WAIT_TIME_INCREMENT) * 60

\* wait_time in seconds for loop_count = n.
WaitTime(n) == (INITIAL_WAIT_TIME + (n - 1) * WAIT_TIME_INCREMENT) * 60

\* loop_count += 1; wait_time = ...; time.sleep(wait_time).  time.sleep
\* raises ValueError for a negative length.
LoopSleep ==
    /\ pc = "loop_sleep"
    /\ loop_count < MaxLoops
    /\ loop_count' = loop_count + 1
    /\ wait_time' = WaitTime(loop_count')
    /\ IF wait_time' < 0
         THEN /\ Raise
              /\ UNCHANGED <<sleeps, steps>>
         ELSE /\ sleeps' = Append(sleeps, wait_time')
              /\ steps' = <<"sleep">>
              /\ pc' = "age_check"
              /\ UNCHANGED outcome
    /\ UNCHANGED <<replaced_snapshot, stale_warned, restore_attempts,
                   config, driver, saved_cookies, is_first_login, counters,
                   verdict, new_cookies, files, browsers, browserStorage,
                   injection, save_failed>>

\* The locals of one iteration that the next iteration assigns before it
\* reads them: they are cleared when the iteration's browser is closed.
ClearIterationLocals ==
    /\ current_url_after_wait' = <<>>
    /\ is_session_valid' = FALSE
    /\ new_cookies' = <<>>
    /\ steps' = <<>>

\* The age check with staleness enforced: a stale file is loaded again.
AgeCheckReloads ==
    /\ pc = "age_check"
    /\ \/ /\ UNCHANGED <<stale_warned, saved_cookies>>
       \/ /\ Exists(cookieFile)
          /\ stale_warned' = TRUE
          /\ saved_cookies' = load_cookies_from_file
    /\ pc' = "loop_setup"
    /\ UNCHANGED <<replaced_snapshot, steps, restore_attempts,
                   config, driver, is_first_login, loop_count, wait_time,
                   counters, verdict, new_cookies, files, browsers,
                   browserStorage, outcome, sleeps, injection, save_failed>>

\* if os.path.exists(COOKIES_FILE): a file more than 24 hours old gets a
\* warning in the log.  The age of the file is the environment's.
AgeCheck ==
    /\ pc = "age_check"
    /\ \/ UNCHANGED stale_warned
       \/ /\ Exists(cookieFile)
          /\ stale_warned' = TRUE
    /\ pc' = "loop_setup"
    /\ UNCHANGED <<replaced_snapshot, steps, restore_attempts,
                   config, driver, saved_cookies, is_first_login, loop_count,
                   wait_time, counters, verdict, new_cookies, files, browsers,
                   browserStorage, outcome, sleeps, injection, save_failed>>

\* driver = setup_driver(): a new browser for this iteration.
LoopSetupDriver ==
    /\ pc = "loop_setup"
    /\ SetupDriver("domain_access")
    /\ steps' = IF pc' = "domain_access" THEN Append(steps, "launch") ELSE steps
    /\ stale_warned' = FALSE
    /\ UNCHANGED <<replaced_snapshot, restore_attempts,
                   config, saved_cookies, is_first_login, loop_count,
                   wait_time, counters, verdict, new_cookies, files, sleeps,
                   injection, save_failed>>

\* The first navigation with a failure of the fallback swallowed too.
DomainAccessUnchecked ==
    /\ pc = "domain_access"
    /\ \/ /\ browserStorage' \in StorageChoices
          /\ steps' = Append(steps, "domain_root")
       \/ UNCHANGED <<browserStorage, steps>>
    /\ pc' = "restore"
    /\ UNCHANGED <<replaced_snapshot, stale_warned, restore_attempts,
                   config, driver, saved_cookies, is_first_login, loop_count,
                   wait_time, counters, verdict, new_cookies, files, browsers,
                   outcome, sleeps, injection, save_failed>>

\* driver.get(domain root); if that raises, driver.get(INITIAL_URL) outside
\* any try, which ends the iteration when it raises as well.
DomainAccess ==
    /\ pc = "domain_access"
    /\ \/ /\ browserStorage' \in StorageChoices
          /\ steps' = Append(steps, "domain_root")
          /\ pc' = "restore"
          /\ UNCHANGED outcome
       \/ /\ browserStorage' \in StorageChoices
          /\ steps' = Append(steps, "initial_url")
          /\ pc' = "restore"
          /\ UNCHANGED outcome
       \/ /\ Raise
          /\ UNCHANGED <<browserStorage, steps>>
    /\ UNCHANGED <<replaced_snapshot, stale_warned, restore_attempts,
                   config, driver, saved_cookies, is_first_login, loop_count,
                   wait_time, counters, verdict, new_cookies, files, browsers,
                   sleeps, injection, save_failed>>

\* if value: a saved value that is neither None nor the empty string.
ValueTruthy(v) == v # <<>> /\ v # NoneValue

\* Keys of a saved mapping whose value is non-empty.
NonEmptyKeys(m) == { k \in DOMAIN m : ValueTruthy(m[k]) }

\* The keys whose script f"localStorage.setItem('{key}', '{value}');" is
\* well-formed: the others raise in execute_script whatever the browser does.
WellFormedSetItems(m) ==
    { k \in NonEmptyKeys(m) : JsString(k).ok /\ JsString(m[k]).ok }

\* The mapping `m` after the setItem scripts of the keys of `keys` that are
\* in `done` have run, in order.
RECURSIVE SetItems(_, _, _, _)
SetItems(m, saved, keys, done) ==
    IF keys = <<>> THEN m
    ELSE LET k == Head(keys)
             after == IF k \in done
                        THEN (JsString(k).str :> JsString(saved[k]).str) @@ m
                        ELSE m
         IN  SetItems(after, saved, Tail(keys), done)

\* The order in which a saved mapping yields its keys.
KeyOrder ==
    << <<"j","w","t">>, <<"u","i">>, <<"t","a","b">>, <<"\\","q">>, <<"q">> >>

RECURSIVE KeysFrom(_, _)
KeysFrom(m, i) ==
    IF i > Len(KeyOrder) THEN <<>>
    ELSE (IF KeyOrder[i] \in DOMAIN m THEN << KeyOrder[i] >> ELSE <<>>)
         \o KeysFrom(m, i + 1)

RestoreKeysUnfiltered(m, keys) == keys

\* for key, value in mapping.items(): if value: setItem(key, value).
\* The keys setItem is called for, in order.
RECURSIVE RestoreKeys(_, _)
RestoreKeys(m, keys) ==
    IF keys = <<>> THEN <<>>
    ELSE (IF ValueTruthy(m[Head(keys)]) THEN << Head(keys) >> ELSE <<>>)
         \o RestoreKeys(m, Tail(keys))

\* restore_local_storage(driver): nothing without a readable snapshot;
\* otherwise setItem for every key with a non-empty value, each call free
\* to fail (caught and logged per key).
RestoreStorage ==
    /\ pc = "restore"
    /\ restore_attempts' =
          IF sessionFile.state # "ok" THEN NoAttempts
          ELSE [localStorage |->
                  RestoreKeys(sessionFile.data.localStorage,
                              KeysFrom(sessionFile.data.localStorage, 1)),
                sessionStorage |->
                  RestoreKeys(sessionFile.data.sessionStorage,
                              KeysFrom(sessionFile.data.sessionStorage, 1))]
    /\ steps' = Append(steps, "restore")
    /\ IF sessionFile.state # "ok"
         THEN UNCHANGED browserStorage
         ELSE \E okL \in SUBSET WellFormedSetItems(sessionFile.data.localStorage),
                 okS \in SUBSET WellFormedSetItems(sessionFile.data.sessionStorage) :
                browserStorage' =
                  [localStorage |->
                     SetItems(browserStorage.localStorage,
                              sessionFile.data.localStorage,
                              restore_attempts'.localStorage, okL),
                   sessionStorage |->
                     SetItems(browserStorage.sessionStorage,
                              sessionFile.data.sessionStorage,
                              restore_attempts'.sessionStorage, okS)]
    /\ pc' = "inject_start"
    /\ UNCHANGED <<replaced_snapshot, stale_warned,
                   config, driver, saved_cookies, is_first_login, loop_count,
                   wait_time, counters, verdict, new_cookies, files, browsers,
                   outcome, sleeps, injection, save_failed>>

\* cookie_success_count = 0; cookie_error_count = 0; for cookie in ...
InjectStart ==
    /\ pc = "inject_start"
    /\ cookie_success_count' = 0
    /\ cookie_error_count' = 0
    /\ cookie_idx' = 1
    /\ handed' = <<>>
    /\ iter_cookies' = saved_cookies.list
    /\ steps' = Append(steps, "inject")
    /\ restore_attempts' = NoAttempts
    /\ pc' = IF saved_cookies.list = <<>> THEN "refresh" ELSE "inject"
    /\ UNCHANGED <<replaced_snapshot, stale_warned,
                   config, driver, saved_cookies, is_first_login, loop_count,
                   wait_time, verdict, new_cookies, files, browsers,
                   browserStorage, outcome, sleeps, save_failed>>

\* int(x) of a float kept in halves: truncation toward zero.
IntOfFloat(halves) ==
    IF halves >= 0 THEN halves \div 2 ELSE -((-halves) \div 2)

NormalizeExpiryKeepFloat(cookie) == cookie

\* if 'expiry' in cookie and isinstance(cookie['expiry'], float):
\*     cookie['expiry'] = int(cookie['expiry'])
NormalizeExpiry(cookie) ==
    IF cookie.expiry.kind = "float"
      THEN [cookie EXCEPT !.expiry = IntExpiry(IntOfFloat(cookie.expiry.val))]
      ELSE cookie

\* The for loop with add_cookie outside any try: a failure propagates.
InjectCookieStopsOnFailure ==
    /\ pc = "inject"
    /\ cookie_idx <= Len(saved_cookies.list)
    /\ LET cookie == NormalizeExpiry(saved_cookies.list[cookie_idx])
       IN  /\ saved_cookies' =
                [saved_cookies EXCEPT !.list[cookie_idx] = cookie]
           /\ handed' = Append(handed, cookie)
    /\ \/ /\ cookie_success_count' = cookie_success_count + 1
          /\ pc' = IF cookie_idx = Len(saved_cookies.list)
                     THEN "refresh" ELSE "inject"
          /\ UNCHANGED <<cookie_error_count, outcome>>
       \/ /\ cookie_error_count' = cookie_error_count + 1
          /\ Raise
          /\ UNCHANGED cookie_success_count
    /\ cookie_idx' = cookie_idx + 1
    /\ UNCHANGED <<replaced_snapshot, trace,
                   config, driver, is_first_login, loop_count, wait_time,
                   verdict, new_cookies, files, browsers, browserStorage,
                   sleeps, iter_cookies, save_failed>>

\* One pass of the for loop: normalise the expiry in place, add_cookie,
\* count the success or the caught failure.
InjectCookie ==
    /\ pc = "inject"
    /\ cookie_idx <= Len(saved_cookies.list)
    /\ LET cookie == NormalizeExpiry(saved_cookies.list[cookie_idx])
       IN  /\ saved_cookies' =
                [saved_cookies EXCEPT !.list[cookie_idx] = cookie]
           /\ handed' = Append(handed, cookie)
    /\ \/ /\ cookie_success_count' = cookie_success_count + 1
          /\ UNCHANGED cookie_error_count
       \/ /\ cookie_error_count' = cookie_error_count + 1
          /\ UNCHANGED cookie_success_count
    /\ cookie_idx' = cookie_idx + 1
    /\ pc' = IF cookie_idx = Len(saved_cookies.list) THEN "refresh" ELSE "inject"
    /\ UNCHANGED <<replaced_snapshot, trace,
                   config, driver, is_first_login, loop_count, wait_time,
                   verdict, new_cookies, files, browsers, browserStorage,
                   outcome, sleeps, iter_cookies, save_failed>>

\* The log line that reports the two counts (their last read), then
\* driver.refresh().
Refresh ==
    /\ pc = "refresh"
    /\ \/ Raise /\ UNCHANGED steps
       \/ /\ pc' = "access_target"
          /\ steps' = Append(steps, "refresh")
          /\ UNCHANGED outcome
    /\ handed' = <<>>
    /\ iter_cookies' = <<>>
    /\ cookie_idx' = 0 /\ cookie_success_count' = 0 /\ cookie_error_count' = 0
    /\ UNCHANGED <<replaced_snapshot, stale_warned, restore_attempts,
                   config, driver, saved_cookies, is_first_login, loop_count,
                   wait_time, verdict, new_cookies, files, browsers,
                   browserStorage, sleeps, save_failed>>

\* driver.get(INITIAL_URL), the waits, the debug reads (each in its own
\* try) and current_url_after_wait = driver.current_url.
AccessTarget ==
    /\ pc = "access_target"
    /\ \/ /\ Raise
          /\ UNCHANGED <<browserStorage, current_url_after_wait, steps>>
       \/ /\ browserStorage' \in StorageChoices
          /\ current_url_after_wait' \in MainCurrentUrls
          /\ steps' = steps \o <<"target", "wait">>
          /\ pc' = "classify"
          /\ UNCHANGED outcome
    /\ UNCHANGED <<replaced_snapshot, stale_warned, restore_attempts,
                   config, driver, saved_cookies, is_first_login, loop_count,
                   wait_time, counters, is_session_valid, new_cookies, files,
                   browsers, sleeps, injection, save_failed>>

\* The URL heuristic and the branch on is_session_valid.
Classify ==
    /\ pc = "classify"
    /\ is_session_valid' = IsSessionValid(INITIAL_URL, current_url_after_wait)
    /\ steps' = Append(steps, "classify")
    /\ pc' = IF is_session_valid' THEN "valid_cookies" ELSE "expired_quit"
    /\ UNCHANGED <<replaced_snapshot, stale_warned, restore_attempts,
                   config, driver, saved_cookies, is_first_login, loop_count,
                   wait_time, counters, current_url_after_wait, new_cookies,
                   files, browsers, browserStorage, outcome, sleeps,
                   injection, save_failed>>

\* new_cookies = driver.get_cookies(); adopt and save them only when the
\* list is non-empty and at least as long as saved_cookies.
AdoptNewCookiesAlways(cs) == TRUE

AdoptNewCookiesIfAny(cs) == cs # <<>>

AdoptNewCookies(cs) == cs # <<>> /\ Len(cs) >= Len(saved_cookies.list)

UpdateCookies ==
    /\ pc = "valid_cookies"
    /\ \/ /\ Raise
          /\ UNCHANGED <<new_cookies, saved_cookies, cookieFile,
                         cookie_file_written, save_failed>>
       \/ \E cs \in CookieLists :
            /\ new_cookies' = cs
            /\ IF AdoptNewCookies(cs)
                 THEN /\ saved_cookies' = SomeCookies(cs)
                      /\ SaveCookiesToFile(cs)
                 ELSE UNCHANGED <<saved_cookies, cookieFile,
                                  cookie_file_written, save_failed>>
            /\ pc' = "valid_storage"
            /\ UNCHANGED outcome
    /\ UNCHANGED <<replaced_snapshot, trace,
                   config, driver, is_first_login, loop_count, wait_time,
                   counters, verdict, sessionFile, session_file_written,
                   browsers, browserStorage, sleeps, injection>>

\* The storage update with a failing save propagating as an exception.
UpdateStorageFatal ==
    /\ pc = "valid_storage"
    /\ \/ /\ ScriptsParse(browserStorage.localStorage)
          /\ ScriptsParse(browserStorage.sessionStorage)
          /\ sessionFile' = SnapshotOf(browserStorage)
          /\ session_file_written' = TRUE
          /\ replaced_snapshot' = sessionFile
          /\ pc' = "valid_quit"
          /\ UNCHANGED <<save_failed, outcome>>
       \/ /\ save_failed' = save_failed \cup {"storage"}
          /\ Raise
          /\ UNCHANGED <<sessionFile, session_file_written,
                         replaced_snapshot>>
    /\ UNCHANGED <<trace,
                   config, driver, saved_cookies, is_first_login, loop_count,
                   wait_time, counters, verdict, new_cookies, cookieFile,
                   cookie_file_written, browsers, browserStorage, sleeps,
                   injection>>

\* save_local_storage(driver)
UpdateStorage ==
    /\ pc = "valid_storage"
    /\ SaveLocalStorage
    /\ pc' = "valid_quit"
    /\ UNCHANGED <<trace,
                   config, driver, saved_cookies, is_first_login, loop_count,
                   wait_time, counters, verdict, new_cookies, cookieFile,
                   cookie_file_written, browsers, browserStorage, outcome,
                   sleeps, injection>>

\* The valid branch ending in a break, as the expired branch does.
LoopQuitBreaks ==
    /\ pc = "valid_quit"
    /\ QuitReturns(driver)
    /\ driver' = 0
    /\ pc' = "finally"
    /\ outcome' = "expired"
    /\ UNCHANGED <<replaced_snapshot, trace,
                   config, saved_cookies, is_first_login, loop_count,
                   wait_time, counters, verdict, new_cookies, files,
                   browserStorage, sleeps, injection, save_failed>>

\* The valid branch forgetting its browser without closing it.
LoopQuitKeepsBrowser ==
    /\ pc = "valid_quit"
    /\ driver' = 0
    /\ save_failed' = {}
    /\ replaced_snapshot' = MissingSnapshot
    /\ ClearIterationLocals
    /\ pc' = "loop_sleep"
    /\ UNCHANGED <<stale_warned, restore_attempts,
                   config, saved_cookies, is_first_login, loop_count,
                   wait_time, counters, files, browsers, browserStorage,
                   outcome, sleeps, injection>>

\* driver.quit(); driver = None; back to the top of the while loop.
LoopQuit ==
    /\ pc = "valid_quit"
    /\ \/ /\ QuitRaises(driver)
          /\ Raise
          /\ UNCHANGED <<driver, save_failed, verdict, new_cookies, steps,
                         replaced_snapshot>>
       \/ /\ QuitReturns(driver)
          /\ driver' = 0
          /\ save_failed' = {}
          /\ replaced_snapshot' = MissingSnapshot
          /\ ClearIterationLocals
          /\ pc' = "loop_sleep"
          /\ UNCHANGED outcome
    /\ UNCHANGED <<stale_warned, restore_attempts,
                   config, saved_cookies, is_first_login, loop_count,
                   wait_time, counters, files, browserStorage, sleeps,
                   injection>>

\* The else branch: driver.quit(); driver = None; break.
ExpiredQuit ==
    /\ pc = "expired_quit"
    /\ \/ /\ QuitRaises(driver)
          /\ Raise
          /\ UNCHANGED driver
       \/ /\ QuitReturns(driver)
          /\ driver' = 0
          /\ pc' = "finally"
          /\ outcome' = "expired"
    /\ UNCHANGED <<replaced_snapshot, trace,
                   config, saved_cookies, is_first_login, loop_count,
                   wait_time, counters, verdict, new_cookies, files,
                   browserStorage, sleeps, injection, save_failed>>

\* ------------------------------------------------------------ ending main()
TryPcs ==
    { "boot_setup", "boot_login", "boot_storage", "boot_cookies", "boot_quit",
      "loop_sleep", "age_check", "loop_setup", "domain_access", "restore", "inject_start",
      "inject", "refresh", "access_target", "classify", "valid_cookies",
      "valid_storage", "valid_quit", "expired_quit" }

\* KeyboardInterrupt anywhere inside the try block.
Interrupt ==
    /\ pc \in TryPcs
    /\ pc = "loop_sleep" => loop_count < MaxLoops
    /\ pc' = "finally"
    /\ outcome' = "interrupted"
    /\ UNCHANGED <<replaced_snapshot, trace,
                   config, driver, saved_cookies, is_first_login, loop_count,
                   wait_time, counters, verdict, new_cookies, files, browsers,
                   browserStorage, sleeps, injection, save_failed>>

\* finally: if driver: driver.quit().  No iteration is under way any more.
Finally ==
    /\ pc = "finally"
    /\ IF driver # 0
         THEN QuitReturns(driver) \/ QuitRaises(driver)
         ELSE UNCHANGED browsers
    /\ pc' = "done"
    /\ steps' = <<>>
    /\ replaced_snapshot' = MissingSnapshot
    /\ UNCHANGED <<stale_warned, restore_attempts,
                   config, driver, saved_cookies, is_first_login, loop_count,
                   wait_time, counters, verdict, new_cookies, files,
                   browserStorage, outcome, sleeps, injection, save_failed>>

Next ==
    \/ Startup
    \/ BootSetupDriver \/ BootLogin \/ BootSaveStorage \/ BootGetCookies
    \/ BootQuit
    \/ LoopSleep \/ AgeCheck \/ LoopSetupDriver \/ DomainAccess \/ RestoreStorage
    \/ InjectStart \/ InjectCookie \/ Refresh \/ AccessTarget \/ Classify
    \/ UpdateCookies \/ UpdateStorage \/ LoopQuit \/ ExpiredQuit
    \/ Interrupt \/ Finally

Spec == Init /\ [][Next]_vars

\* --------------------------------------------- the classification on its own
\* An iteration stopped right before the URL heuristic, for every target URL
\* and every URL the browser can be on.
InitClassify ==
    /\ INITIAL_URL \in TargetUrls
    /\ current_url_after_wait \in CurrentUrls
    /\ INITIAL_WAIT_TIME = 55 /\ WAIT_TIME_INCREMENT = 5
    /\ pc = "classify"
    /\ driver = 1
    /\ browsers = << NewBrowser >>
    /\ saved_cookies = SomeCookies(ListOfNames({"sid"}, 1))
    /\ is_first_login = FALSE
    /\ loop_count = 1
    /\ wait_time = WaitTime(1)
    /\ sleeps = << WaitTime(1) >>
    /\ cookie_idx = 0 /\ cookie_success_count = 0 /\ cookie_error_count = 0
    /\ is_session_valid = FALSE
    /\ new_cookies = <<>>
    /\ cookieFile = CookieFileOf(ListOfNames({"sid"}, 1))
    /\ sessionFile = SnapshotOf(NoStorage)
    /\ browserStorage = NoStorage
    /\ outcome = "running"
    /\ handed = <<>>
    /\ iter_cookies = <<>>
    /\ save_failed = {}
    /\ cookie_file_written = FALSE
    /\ session_file_written = FALSE
    /\ stale_warned = FALSE
    /\ steps = <<"sleep", "launch", "domain_root", "restore", "inject",
                 "refresh", "target", "wait">>
    /\ restore_attempts = NoAttempts
    /\ replaced_snapshot = MissingSnapshot

NextClassify == Classify

SpecClassify == InitClassify /\ [][NextClassify]_vars

\* ================================================================== claims
\* The two URLs are equal once their trailing slashes are ignored: they share
\* a prefix that does not end in '/', and what follows it in each is slashes.
OnlySlashesFrom(s, n) == \A i \in (n + 1)..Len(s) : s[i] = "/"
EqualIgnoringTrailingSlash(a, b) ==
    \E n \in 0..Len(a) :
        /\ n <= Len(b)
        /\ SubSeq(a, 1, n) = SubSeq(b, 1, n)
        /\ n > 0 => a[n] # "/"
        /\ OnlySlashesFrom(a, n)
        /\ OnlySlashesFrom(b, n)

HasLoginKeyword(url) == \E k \in LoginKeywords : Contains(Lower(url), k)

Classified == pc \in {"valid_cookies", "expired_quit"}

\* C1: the verdict is 'valid' when the current URL equals the target URL
\* ignoring trailing slashes, 'valid' when the target is a substring of the
\* current URL, 'valid' when the lower-cased current URL holds no login
\* keyword, and 'expired' exactly when none of the three holds.
C1_VerdictMatchesHeuristic ==
    Classified =>
        LET same == EqualIgnoringTrailingSlash(INITIAL_URL, current_url_after_wait)
            sub  == Contains(current_url_after_wait, INITIAL_URL)
            free == ~HasLoginKeyword(current_url_after_wait)
        IN  /\ same => is_session_valid
            /\ sub => is_session_valid
            /\ free => is_session_valid
            /\ ~is_session_valid <=> (~same /\ ~sub /\ ~free)

\* An 'expired' verdict that rests on lower-casing the URL.
C1_Witness ==
    /\ pc = "expired_quit"
    /\ ~is_session_valid
    /\ HasLoginKeyword(current_url_after_wait)
    /\ \A k \in LoginKeywords : ~Contains(current_url_after_wait, k)

\* C2: the sleep of iteration n lasts (INITIAL_WAIT_TIME +
\* (n-1)*WAIT_TIME_INCREMENT) minutes, that is 60 times as many seconds, and
\* the iteration counter goes up by one per iteration (the n-th sleep is the
\* sleep of iteration n).
LoopBodyPcs ==
    { "age_check", "loop_setup", "domain_access", "restore", "inject_start",
      "inject", "refresh", "access_target", "classify", "valid_cookies",
      "valid_storage", "valid_quit", "expired_quit" }

C2_BackoffInterval ==
    /\ \A n \in 1..Len(sleeps) :
          LET minutes == INITIAL_WAIT_TIME + (n - 1) * WAIT_TIME_INCREMENT
          IN  sleeps[n] = minutes * 60
    /\ pc \in LoopBodyPcs \cup {"loop_sleep"} => Len(sleeps) = loop_count
    /\ pc \in LoopBodyPcs => wait_time = sleeps[loop_count]

\* The second iteration has slept, with a non-zero increment.
C2_Witness ==
    /\ pc = "loop_setup"
    /\ loop_count = 2
    /\ Len(sleeps) = 2
    /\ WAIT_TIME_INCREMENT # 0
    /\ sleeps[2] # sleeps[1]

Ended == pc \in {"finally", "done"}

\* C3: a 'valid' verdict is followed by another iteration and an 'expired'
\* verdict is the last check; with no interruption and no exception the loop
\* ends only through an 'expired' verdict.
C3_EndsOnlyWhenExpired ==
    /\ Ended => outcome \in {"no_cookies", "expired", "interrupted", "exception"}
    /\ outcome = "no_cookies" => loop_count = 0
    /\ outcome = "expired" =>
          /\ loop_count >= 1
          /\ ~is_session_valid
          /\ ~EqualIgnoringTrailingSlash(INITIAL_URL, current_url_after_wait)
          /\ HasLoginKeyword(current_url_after_wait)

C3_ValidContinues ==
    /\ (pc = "classify" /\ outcome' = "running" /\ is_session_valid') =>
          pc' = "valid_cookies"
    /\ (pc = "valid_cookies" /\ outcome' = "running") => pc' = "valid_storage"
    /\ (pc = "valid_storage" /\ outcome' = "running") => pc' = "valid_quit"
    /\ (pc = "valid_quit" /\ outcome' = "running") =>
          pc' = "loop_sleep" /\ loop_count' = loop_count
    /\ (pc = "loop_sleep" /\ outcome' = "running") =>
          /\ pc' = "age_check"
          /\ loop_count' = loop_count + 1
          /\ Len(sleeps') = Len(sleeps) + 1

C3_ExpiredIsLast ==
    /\ (pc = "classify" /\ outcome' = "running" /\ ~is_session_valid') =>
          pc' = "expired_quit"
    /\ pc = "expired_quit" => pc' = "finally"
    /\ outcome = "expired" =>
          /\ pc' \in {"finally", "done"}
          /\ outcome' = "expired"
          /\ sleeps' = sleeps
          /\ loop_count' = loop_count
          /\ Len(browsers') = Len(browsers)
          /\ verdict' = verdict

C3_LoopContinuation ==
    /\ []C3_EndsOnlyWhenExpired
    /\ [][C3_ValidContinues]_vars
    /\ [][C3_ExpiredIsLast]_vars

\* A run whose first check was 'valid' and whose second was 'expired'.
C3_Witness ==
    /\ pc = "done"
    /\ outcome = "expired"
    /\ loop_count = 2
    /\ Len(sleeps) = 2

\* C4: when the browser reports no cookies after the manual-login wait,
\* neither the cookie file nor the storage-snapshot file is written during
\* the run.
C4_NothingPersistedWithoutCookies ==
    outcome = "no_cookies" =>
        ~cookie_file_written /\ ~session_file_written

\* C5: when the browser reports no cookies after the manual-login wait, the
\* loop is never entered: no backoff sleep, no second browser, no check.
C5_NoCookiesAbortsRun ==
    outcome = "no_cookies" =>
        /\ Ended
        /\ loop_count = 0
        /\ sleeps = <<>>
        /\ Len(browsers) = 1
        /\ saved_cookies = SomeCookies(<<>>)

C5_Witness ==
    /\ pc = "done"
    /\ outcome = "no_cookies"
    /\ is_first_login

\* C6: when main has finished, on whatever path, every browser the run
\* launched has been closed, and closed exactly once.
C6_EveryBrowserClosedOnce ==
    pc = "done" =>
        \A b \in 1..Len(browsers) :
            ~browsers[b].open /\ browsers[b].quits = 1

C7_CookieStep ==
    (pc = "valid_cookies" /\ pc' = "valid_storage") =>
        /\ sessionFile' = sessionFile
        /\ IF new_cookies' # <<>> /\ Len(new_cookies') >= Len(saved_cookies.list)
             THEN \/ cookieFile' = CookieFileOf(new_cookies')
                  \/ "cookies" \in save_failed' /\ cookieFile' = cookieFile
             ELSE cookieFile' = cookieFile /\ save_failed' = save_failed

C7_StorageStep ==
    (pc = "valid_storage" /\ pc' = "valid_quit") =>
        /\ cookieFile' = cookieFile
        /\ \/ sessionFile' = SnapshotOf(browserStorage)
           \/ "storage" \in save_failed' /\ sessionFile' = sessionFile

C8_OnlyTwoFatalCases ==
    pc = "done" => outcome \in {"no_cookies", "expired", "interrupted"}

\* C8 (amended): the run ends for lack of cookies, on an 'expired' verdict,
\* on interruption, and on any exception that is not caught where it is
\* raised; the failures caught where they occur (a save of either file, a
\* cookie injection) are the non-fatal ones.
C8_EndReasons ==
    /\ Ended => outcome \in {"no_cookies", "expired", "interrupted", "exception"}
    /\ ~Ended => outcome = "running"

C8_CaughtFailuresGoOn ==
    /\ (save_failed' # save_failed /\ save_failed' # {}) =>
          outcome' = "running" /\ pc' \in TryPcs
    /\ cookie_error_count' > cookie_error_count =>
          outcome' = "running" /\ pc' \in TryPcs

C8_FatalAndNonFatal ==
    /\ []C8_EndReasons
    /\ [][C8_CaughtFailuresGoOn]_vars

\* A run ended by an exception in its second iteration, after a save of the
\* first iteration had failed without ending it.
C8_Witness ==
    /\ pc = "done"
    /\ outcome = "exception"
    /\ loop_count = 2
    /\ save_failed # {}

\* C9: every saved cookie is attempted exactly once, in order, whichever
\* injections fail; successes plus failures equal the number of saved
\* cookies; a failed injection is followed by the next cookie or by the
\* refresh.
C9_CountsAndOrder ==
    /\ pc \in {"inject", "refresh"} =>
          /\ Len(iter_cookies) = Len(saved_cookies.list)
          /\ cookie_success_count + cookie_error_count = Len(handed)
          /\ \A i \in 1..Len(handed) : handed[i].name = iter_cookies[i].name
    /\ pc = "inject" => Len(handed) = cookie_idx - 1 /\ Len(handed) < Len(iter_cookies)
    /\ pc = "refresh" =>
          /\ Len(handed) = Len(iter_cookies)
          /\ cookie_success_count + cookie_error_count = Len(saved_cookies.list)

C9_FailureGoesOn ==
    cookie_error_count' > cookie_error_count =>
        /\ outcome' = "running"
        /\ pc' = IF Len(handed') = Len(iter_cookies) THEN "refresh" ELSE "inject"
        /\ Len(handed') = Len(handed) + 1

C9_InjectionTolerant ==
    /\ []C9_CountsAndOrder
    /\ [][C9_FailureGoesOn]_vars

\* The first of two cookies failed, the second went in, refresh is next.
C9_Witness ==
    /\ pc = "refresh"
    /\ Len(handed) = 2
    /\ cookie_error_count = 1
    /\ cookie_success_count = 1

\* C10: no cookie reaches add_cookie with a float expiry: a float expiry has
\* become its integer part, and a cookie with no expiry or an int expiry is
\* passed as it was saved.
C10_NoFloatExpiryInjected ==
    \A i \in 1..Len(handed) :
        /\ handed[i].expiry.kind # "float"
        /\ handed[i].name = iter_cookies[i].name
        /\ IF iter_cookies[i].expiry.kind = "float"
             THEN /\ handed[i].expiry.kind = "int"
                  /\ LET f == iter_cookies[i].expiry.val
                         v == 2 * handed[i].expiry.val
                     IN  IF f >= 0 THEN v <= f /\ f < v + 2
                                   ELSE f <= v /\ v - 2 < f
             ELSE handed[i] = iter_cookies[i]

\* In the second iteration a cookie saved with a float expiry was injected.
C10_Witness ==
    /\ loop_count = 2
    /\ pc = "refresh"
    /\ \E i \in 1..Len(handed) :
          iter_cookies[i].expiry.kind = "float" /\ handed[i].expiry.kind = "int"

C12_Order ==
    << "sleep", "launch", "navigate", "restore", "inject", "refresh",
       "target", "wait", "classify" >>

C12_Slot(s) == IF s \in {"domain_root", "initial_url"} THEN "navigate" ELSE s

C12_StepsDoneAt ==
    [ age_check |-> 1, loop_setup |-> 1, domain_access |-> 2, restore |-> 3,
      inject_start |-> 4, inject |-> 5, refresh |-> 5, access_target |-> 6,
      classify |-> 8, valid_cookies |-> 9, valid_storage |-> 9,
      valid_quit |-> 9, expired_quit |-> 9 ]

C13_BackoffNeverDecreases ==
    \A n \in 1..(Len(sleeps) - 1) : sleeps[n + 1] >= sleeps[n]

\* C14: restore_local_storage calls setItem exactly once for every key of
\* the two saved mappings whose value is non-empty and never for a key whose
\* value is empty, whatever the other calls do; without a readable snapshot
\* it calls nothing; and in each of these cases the iteration goes on to the
\* cookie injection with the same browser and the same saved cookies.
C14_Times(attempts, k) ==
    Cardinality({ i \in 1..Len(attempts) : attempts[i] = k })

C14_AttemptedOncePerKey(m, attempts) ==
    /\ \A k \in DOMAIN m :
          C14_Times(attempts, k) =
             IF m[k] # <<>> /\ m[k] # NoneValue THEN 1 ELSE 0
    /\ \A i \in 1..Len(attempts) : attempts[i] \in DOMAIN m

C14_Attempts ==
    pc = "inject_start" =>
       IF sessionFile.state = "ok"
         THEN /\ C14_AttemptedOncePerKey(sessionFile.data.localStorage,
                                         restore_attempts.localStorage)
              /\ C14_AttemptedOncePerKey(sessionFile.data.sessionStorage,
                                         restore_attempts.sessionStorage)
         ELSE restore_attempts = NoAttempts

C14_RestoreGoesOn ==
    (pc = "restore" /\ outcome' = "running") =>
       /\ pc' = "inject_start"
       /\ UNCHANGED <<driver, browsers, saved_cookies, files, loop_count>>

C14_RestorePerKey == []C14_Attempts /\ [][C14_RestoreGoesOn]_vars

\* The snapshot holds an empty value (skipped) and two non-empty ones; the
\* local-storage key failed to restore, the session-storage key was
\* restored, and the cookie injection is next.
C14_Witness ==
    /\ pc = "inject_start"
    /\ sessionFile.state = "ok"
    /\ <<"j","w","t">> \in DOMAIN sessionFile.data.localStorage
    /\ sessionFile.data.localStorage[<<"j","w","t">>] = <<>>
    /\ restore_attempts.localStorage = << <<"u","i">> >>
    /\ restore_attempts.sessionStorage = << <<"t","a","b">> >>
    /\ <<"u","i">> \notin DOMAIN browserStorage.localStorage
    /\ <<"t","a","b">> \in DOMAIN browserStorage.sessionStorage

\* C15: after a successful save_local_storage the snapshot's two mappings
\* hold exactly the keys and values the browser holds at the time of the
\* save, and no key of the snapshot that was replaced is in the new one
\* unless the browser holds it.
C15_SavedExactly(saved, held, before) ==
    /\ DOMAIN saved = DOMAIN held
    /\ \A k \in DOMAIN saved : saved[k] = held[k]
    /\ \A k \in DOMAIN before : k \in DOMAIN saved => k \in DOMAIN held

C15_SnapshotIsBrowserStorage ==
    (pc \in {"boot_cookies", "valid_quit"} /\ "storage" \notin save_failed) =>
       /\ sessionFile.state = "ok"
       /\ C15_SavedExactly(sessionFile.data.localStorage,
                           browserStorage.localStorage,
                           replaced_snapshot.data.localStorage)
       /\ C15_SavedExactly(sessionFile.data.sessionStorage,
                           browserStorage.sessionStorage,
                           replaced_snapshot.data.sessionStorage)

\* C16: at most one browser launched by the run is open at any time, and
\* none is open when a backoff sleep begins or while the iteration has not
\* launched its own: the bootstrap browser and the browser of an iteration
\* are closed, and forgotten by main, before the next sleep.
C16_OpenBrowsers == { b \in 1..Len(browsers) : browsers[b].open }

C16_OneBrowserAtATime ==
    /\ Cardinality(C16_OpenBrowsers) <= 1
    /\ pc \in {"loop_sleep", "age_check", "loop_setup"} =>
          /\ C16_OpenBrowsers = {}
          /\ driver = 0
    /\ (driver # 0 /\ pc \notin {"finally", "done"}) => C16_OpenBrowsers = {driver}

\* The second iteration has slept after the bootstrap browser and the
\* browser of the first iteration were both launched and closed.
C16_Witness ==
    /\ pc = "age_check"
    /\ loop_count = 2
    /\ is_first_login
    /\ Len(browsers) = 2
    /\ \A b \in 1..2 : ~browsers[b].open /\ browsers[b].quits = 1

\* C17: in the revalidation loop the saved cookie list is never empty and
\* never gets shorter; it changes only at the cookie update of a valid
\* check, to the non-empty list the browser returned when that list is at
\* least as long, and otherwise that step leaves the list and the cookie
\* file as they were.
C17_LoopPcs == LoopBodyPcs \cup {"loop_sleep"}

C17_NeverEmpty ==
    pc \in C17_LoopPcs => ~saved_cookies.none /\ saved_cookies.list # <<>>

C17_Names(l) == [i \in 1..Len(l) |-> l[i].name]

C17_Replacement ==
    (pc \in C17_LoopPcs /\ pc' \in C17_LoopPcs) =>
       /\ Len(saved_cookies'.list) >= Len(saved_cookies.list)
       /\ C17_Names(saved_cookies'.list) # C17_Names(saved_cookies.list) =>
             /\ pc = "valid_cookies"
             /\ saved_cookies'.list = new_cookies'
       /\ pc = "valid_cookies" =>
             IF new_cookies' # <<>>
                   /\ Len(new_cookies') >= Len(saved_cookies.list)
               THEN saved_cookies' = SomeCookies(new_cookies')
               ELSE UNCHANGED <<saved_cookies, cookieFile, cookie_file_written>>

C17_SavedListNeverShrinks == []C17_NeverEmpty /\ [][C17_Replacement]_vars

\* A valid check where the browser returned fewer cookies than are saved:
\* the two saved cookies were kept.
C17_Witness ==
    /\ pc = "valid_storage"
    /\ Len(new_cookies) = 1
    /\ Len(saved_cookies.list) = 2

\* C18: the bootstrap is skipped exactly when the cookie file loads to a
\* non-empty list and the snapshot file exists (readable or not); otherwise
\* it runs before the loop; and when it is skipped no browser is launched
\* before the first sleep.
C18_StartupDecision ==
    pc = "start" =>
       /\ ~is_first_login' <=>
             /\ cookieFile.state = "ok"
             /\ cookieFile.cookies # <<>>
             /\ sessionFile.state # "missing"
       /\ pc' = IF is_first_login' THEN "boot_setup" ELSE "loop_sleep"

C18_BootstrapBeforeLoop ==
    /\ (pc # "start" /\ ~is_first_login /\ sleeps = <<>>) => browsers = <<>>
    /\ (is_first_login /\ pc \in C17_LoopPcs) =>
          /\ Len(browsers) >= 1
          /\ ~browsers[1].open
          /\ browsers[1].quits = 1
          /\ Len(sleeps) <= Len(browsers)
    /\ (is_first_login /\ browsers = <<>>) =>
          pc \in {"boot_setup", "finally", "done"}

C18_BootstrapSkippedExactly ==
    []C18_BootstrapBeforeLoop /\ [][C18_StartupDecision]_vars

\* The bootstrap was skipped with a snapshot file that exists but cannot be
\* read: the first sleep is over and no browser has been launched.
C18_Witness ==
    /\ pc = "loop_setup"
    /\ ~is_first_login
    /\ sessionFile.state = "unreadable"
    /\ Len(sleeps) = 1
    /\ browsers = <<>>

====
